---- MODULE Spec2Model ----
(***************************************************************************)
(* Top 10 Pony Videos vote processing: the ranking engine                  *)
(* (functions/top_10_calc.py), the fetch services                          *)
(* (classes/fetch_services.py) and the date and duration utilities         *)
(* (functions/date.py) as state machines.  Text is a sequence of tokens     *)
(* (single characters or words that are never split), a dict is a          *)
(* function, None is NoneVal for text and the empty sequence for an        *)
(* optional number.                                                        *)
(***************************************************************************)
EXTENDS Integers, Sequences, FiniteSets, TLC

VARIABLES
    \* calc_ranked_records and get_titles_to_uploaders
    title_rows, titles_to_urls, videos_data, titles_to_uploaders,
    title_counts, counted_voters, ranked_titles, tie_broken, records, pc, err,
    \* get_history
    archive_records, from_date, anniversaries, history_records, hist_pc,
    \* get_titles_to_urls_mapping
    map_title_rows, map_url_rows, map_titles_to_urls, map_pc,
    \* convert_iso8601_duration_to_seconds; duration_parts keeps the hour,
    \* minute and second digits the text was written from
    iso8601_duration, duration_parts, total_seconds, dur_pc,
    \* the fetch services; fetch_env is what the API or yt-dlp answered
    url, can_youtube, can_ytdlp, fetch_env, fetch_out, fetch_pc,
    \* parse_votes_csv_timestamp, called on a timestamp and on the same
    \* timestamp with month, day and hour zero-padded; timestamp_parts keeps
    \* the pieces the text was written from
    timestamp_parts, timestamp, dt, ts_pc, padded_dt, padded_pc,
    \* get_month_year_bounds, and is_date_between on its bounds
    bounds_month, bounds_year, lenient, lower_bound, upper_bound, date,
    is_between, bounds_pc,
    \* rel_anni_date_to_abs
    rel_date, rel_from_date, abs_date, rel_pc,
    \* get_most_common_month_year
    dates, most_common, common_pc

rankVars == <<title_rows, titles_to_urls, videos_data, titles_to_uploaders,
              title_counts, counted_voters, ranked_titles, tie_broken, records,
              pc, err>>

histVars == <<archive_records, from_date, anniversaries, history_records,
              hist_pc>>

mapVars == <<map_title_rows, map_url_rows, map_titles_to_urls, map_pc>>

durVars == <<iso8601_duration, duration_parts, total_seconds, dur_pc>>

fetchVars == <<url, can_youtube, can_ytdlp, fetch_env, fetch_out, fetch_pc>>

tsVars == <<timestamp_parts, timestamp, dt, ts_pc, padded_dt, padded_pc>>

boundsVars == <<bounds_month, bounds_year, lenient, lower_bound, upper_bound,
                date, is_between, bounds_pc>>

relVars == <<rel_date, rel_from_date, abs_date, rel_pc>>

commonVars == <<dates, most_common, common_pc>>

\* the state of the functions of functions/date.py on dates
dateVars == <<tsVars, boundsVars, relVars, commonVars>>

vars == <<rankVars, histVars, mapVars, durVars, fetchVars, dateVars>>

\* what each part of the program leaves alone
notRank == <<histVars, mapVars, durVars, fetchVars, dateVars>>
notHist == <<rankVars, mapVars, durVars, fetchVars, dateVars>>
notMap == <<rankVars, histVars, durVars, fetchVars, dateVars>>
notDur == <<rankVars, histVars, mapVars, fetchVars, dateVars>>
notFetch == <<rankVars, histVars, mapVars, durVars, dateVars>>
notDate == <<rankVars, histVars, mapVars, durVars, fetchVars>>
notTs == <<notDate, boundsVars, relVars, commonVars>>
notBounds == <<notDate, tsVars, relVars, commonVars>>
notRel == <<notDate, tsVars, boundsVars, commonVars>>
notCommon == <<notDate, tsVars, boundsVars, relVars>>

(***************************************************************************)
(* Bounds of the model                                                     *)
(***************************************************************************)
\* ballots in one call of calc_ranked_records
MaxBallots == 3
\* ballots in one call when the metadata varies too
MaxMetaBallots == 1
\* records in the archive, and year offsets in one call of get_history
MaxArchive == 2
MaxAnniversaries == 2
\* rows and columns of the title table and of the URL table
MaxRows == 2
MaxCols == 2
\* digits of one component of a duration text
MaxDigits == 2
\* segments in the path of a URL, and items in an API response
MaxSegs == 3
MaxItems == 2
\* the most digits the month of a timestamp is written with
MaxFieldDigits == 2
\* the most digits the number of years of a relative date is written with
MaxYearsDigits == 2
\* the most dates get_most_common_month_year is given
MaxDates == 4

(***************************************************************************)
(* Constants of the program                                                *)
(***************************************************************************)
\* a ballot needs at least this many votes to be counted
MinVotes == 5

(***************************************************************************)
(* Python built-ins used by the code                                       *)
(***************************************************************************)
\* None, for a value that is otherwise text
NoneVal == "<None>"

\* all lists over S of length at most n
SeqsUpTo(S, n) == UNION {[1..k -> S] : k \in 0..n}

\* list.pop(i) leaves this list behind
RemoveAt(s, i) == SubSeq(s, 1, i - 1) \o SubSeq(s, i + 1, Len(s))

\* the elements of a list
Range(s) == {s[i] : i \in DOMAIN s}

RECURSIVE Flatten(_)
\* the cells of a table, row by row
Flatten(rows) ==
    IF rows = <<>> THEN <<>> ELSE Head(rows) \o Flatten(Tail(rows))

RECURSIVE FirstSeen(_, _)
\* the keys of a dict in insertion order, for keys inserted in the order of s
FirstSeen(s, seen) ==
    IF s = <<>> THEN <<>>
    ELSE IF Head(s) \in seen THEN FirstSeen(Tail(s), seen)
    ELSE <<Head(s)>> \o FirstSeen(Tail(s), seen \cup {Head(s)})

\* d[k] = v
DictSet(d, k, v) == [x \in DOMAIN d \cup {k} |-> IF x = k THEN v ELSE d[x]]

Digit == {"0", "1", "2", "3", "4", "5", "6", "7", "8", "9"}

DigitValue(c) ==
    CASE c = "0" -> 0 [] c = "1" -> 1 [] c = "2" -> 2 [] c = "3" -> 3
      [] c = "4" -> 4 [] c = "5" -> 5 [] c = "6" -> 6 [] c = "7" -> 7
      [] c = "8" -> 8 [] c = "9" -> 9

\* int(text) returns for a non-empty run of digits and raises ValueError for
\* the other texts of this model
IsInt(text) == text # <<>> /\ \A i \in DOMAIN text : text[i] \in Digit

RECURSIVE IntOfDigits(_, _)
IntOfDigits(text, acc) ==
    IF text = <<>> THEN acc
    ELSE IntOfDigits(Tail(text), acc * 10 + DigitValue(Head(text)))

\* int(text), leading zeros allowed
PyInt(text) == IntOfDigits(text, 0)

\* the Gregorian calendar of datetime
IsLeap(year) == year % 4 = 0 /\ (year % 100 # 0 \/ year % 400 = 0)

DaysInMonth(year, month) ==
    IF month = 2 THEN (IF IsLeap(year) THEN 29 ELSE 28)
    ELSE IF month \in {4, 6, 9, 11} THEN 30 ELSE 31

\* datetime(year, month, day) raises ValueError outside MINYEAR..MAXYEAR and
\* for a day the month does not have
DatetimeOk(year, month, day) ==
    /\ year \in 1..9999
    /\ month \in 1..12
    /\ day \in 1..DaysInMonth(year, month)

(***************************************************************************)
(* Ranking engine: inputs                                                  *)
(***************************************************************************)
Blank == ""

\* the ballots of a round with six slots: blank, 1, 4, 5 and 6 votes, a blank
\* slot in the middle, and a title voted twice on one ballot
BallotRows ==
    { <<"", "", "", "", "", "">>,
      <<"A", "", "", "", "", "">>,
      <<"A", "B", "C", "D", "", "">>,
      <<"A", "B", "C", "D", "E", "">>,
      <<"A", "B", "C", "D", "", "F">>,
      <<"", "B", "C", "D", "E", "F">>,
      <<"A", "B", "C", "D", "E", "F">>,
      <<"A", "A", "B", "C", "D", "">> }

BallotLists == SeqsUpTo(BallotRows, MaxBallots)

\* a complete title -> URL dict (the blank cells pair up too)
FullTitlesToUrls ==
    ("" :> "") @@ ("A" :> "urlA") @@ ("B" :> "urlB") @@ ("C" :> "urlC")
    @@ ("D" :> "urlD") @@ ("E" :> "urlE") @@ ("F" :> "urlF")

\* a dict without one key
Without(d, k) == [x \in DOMAIN d \ {k} |-> d[x]]

TitlesToUrlsChoices == {FullTitlesToUrls, Without(FullTitlesToUrls, "A")}

\* the fetched data of one video: None, or a dict with or without "uploader"
VideoData(up) == [none |-> FALSE, keys |-> {"uploader"}, uploader |-> up]
NoVideoData == [none |-> TRUE, keys |-> {}, uploader |-> NoneVal]
NoUploaderKey == [none |-> FALSE, keys |-> {}, uploader |-> NoneVal]

FullVideosData ==
    ("" :> NoVideoData) @@ ("urlA" :> VideoData("alice"))
    @@ ("urlB" :> VideoData("bob")) @@ ("urlC" :> VideoData("carol"))
    @@ ("urlD" :> VideoData("dave")) @@ ("urlE" :> VideoData("erin"))
    @@ ("urlF" :> VideoData("frank"))

\* the fetched videos data: complete, or with the data of urlA None, without
\* an uploader, with uploader None, or not there at all
VideosDataChoices ==
    { FullVideosData,
      [FullVideosData EXCEPT !["urlA"] = NoVideoData],
      [FullVideosData EXCEPT !["urlA"] = NoUploaderKey],
      [FullVideosData EXCEPT !["urlA"] = VideoData(NoneVal)],
      Without(FullVideosData, "urlA") }

NoErr == [kind |-> "none", line |-> 0]

\* the state before the first call, for given arguments
RankStart(rows, urls, data) ==
    /\ title_rows = rows
    /\ titles_to_urls = urls
    /\ videos_data = data
    /\ titles_to_uploaders = <<>>
    /\ title_counts = <<>>
    /\ counted_voters = 0
    /\ ranked_titles = <<>>
    /\ tie_broken = <<>>
    /\ records = <<>>
    /\ err = NoErr

\* no call of get_history is under way
HistIdle ==
    /\ archive_records = <<>>
    /\ from_date = [month |-> 1, year |-> 1]
    /\ anniversaries = <<>>
    /\ history_records = <<>>
    /\ hist_pc = "idle"

\* no call of get_titles_to_urls_mapping is under way
MapIdle ==
    /\ map_title_rows = <<>>
    /\ map_url_rows = <<>>
    /\ map_titles_to_urls = <<>>
    /\ map_pc = "idle"

\* no call of convert_iso8601_duration_to_seconds is under way
DurIdle ==
    /\ iso8601_duration = <<>>
    /\ duration_parts = [marker |-> FALSE, h |-> <<>>, m |-> <<>>, s |-> <<>>]
    /\ total_seconds = 0
    /\ dur_pc = "idle"

\* what a fetch service answers before it is asked
NoFetchEnv ==
    [video_id |-> FALSE, api |-> "-", items |-> <<>>, extract |-> "-",
     title |-> FALSE, duration |-> <<>>]
NoFetchOut ==
    [kind |-> "none", message_url |-> <<>>, title |-> "", duration |-> <<>>,
     platform |-> <<>>]

\* no fetch service is at work
FetchIdle ==
    /\ url = <<>>
    /\ can_youtube = FALSE
    /\ can_ytdlp = FALSE
    /\ fetch_env = NoFetchEnv
    /\ fetch_out = NoFetchOut
    /\ fetch_pc = "idle"

\* a datetime that was never assigned
NoDatetime ==
    [year |-> 0, month |-> 0, day |-> 0, hour |-> 0, minute |-> 0,
     second |-> 0]
NoTimestampParts ==
    [lead |-> <<>>, month |-> <<>>, day |-> <<>>, year |-> <<>>,
     date_sep |-> "/", gap |-> <<>>, hour |-> <<>>, minute |-> <<>>,
     second |-> <<>>, trail |-> <<>>]

\* no call of parse_votes_csv_timestamp is under way
TsIdle ==
    /\ timestamp_parts = NoTimestampParts
    /\ timestamp = <<>>
    /\ dt = NoDatetime
    /\ ts_pc = "idle"
    /\ padded_dt = NoDatetime
    /\ padded_pc = "idle"

\* a datetime with its tzinfo that was never assigned; tz is the UTC offset
\* in hours, <<>> for None
NoAwareDatetime == [year |-> 0, month |-> 0, day |-> 0, hour |-> 0, tz |-> <<>>]

\* no call of get_month_year_bounds is under way
BoundsIdle ==
    /\ bounds_month = 0
    /\ bounds_year = 0
    /\ lenient = FALSE
    /\ lower_bound = NoAwareDatetime
    /\ upper_bound = NoAwareDatetime
    /\ date = NoAwareDatetime
    /\ is_between = [kind |-> "none", value |-> FALSE]
    /\ bounds_pc = "idle"

\* a date that was never assigned
NoDate == [year |-> 0, month |-> 0, day |-> 0]

\* no call of rel_anni_date_to_abs is under way
RelIdle ==
    /\ rel_date = <<>>
    /\ rel_from_date = NoDate
    /\ abs_date = NoDate
    /\ rel_pc = "idle"

\* no call of get_most_common_month_year is under way
CommonIdle ==
    /\ dates = <<>>
    /\ most_common = [month |-> 0, year |-> 0, is_unanimous |-> FALSE]
    /\ common_pc = "idle"

\* no function of functions/date.py on dates is at work
DateIdle == TsIdle /\ BoundsIdle /\ RelIdle /\ CommonIdle

\* no call of the ranking engine is under way
RankIdle ==
    /\ RankStart(<<>>, <<>>, <<>>)
    /\ pc = "idle"

\* every title has a URL and every URL has fetched data
InitRank ==
    /\ \E rows \in BallotLists :
           RankStart(rows, FullTitlesToUrls, FullVideosData)
    /\ pc = "uploaders"
    /\ HistIdle /\ MapIdle /\ DurIdle /\ FetchIdle /\ DateIdle

\* the metadata of title A may be missing at any step of the lookup
InitMeta ==
    /\ \E rows \in SeqsUpTo(BallotRows, MaxMetaBallots) :
           \E urls \in TitlesToUrlsChoices : \E data \in VideosDataChoices :
               RankStart(rows, urls, data)
    /\ pc = "uploaders"
    /\ HistIdle /\ MapIdle /\ DurIdle /\ FetchIdle /\ DateIdle

(***************************************************************************)
(* get_titles_to_uploaders                                                 *)
(***************************************************************************)
\* videos_data[url] and video_data["uploader"] both find their key
UploaderLookupOk(title) ==
    /\ titles_to_urls[title] \in DOMAIN videos_data
    /\ LET video_data == videos_data[titles_to_urls[title]]
       IN  video_data.none \/ "uploader" \in video_data.keys

UploaderOf(title) ==
    LET video_data == videos_data[titles_to_urls[title]]
    IN  IF ~video_data.none THEN video_data.uploader ELSE NoneVal

get_titles_to_uploaders ==
    /\ pc = "uploaders"
    /\ IF \A title \in DOMAIN titles_to_urls : UploaderLookupOk(title)
       THEN /\ titles_to_uploaders' =
                   [title \in DOMAIN titles_to_urls |-> UploaderOf(title)]
            /\ pc' = "calc"
            /\ err' = err
       ELSE /\ titles_to_uploaders' = titles_to_uploaders
            /\ pc' = "raised"
            /\ err' = [kind |-> "KeyError", line |-> 0]
    /\ UNCHANGED <<title_rows, titles_to_urls, videos_data, title_counts,
                   counted_voters, ranked_titles, tie_broken, records>>
    /\ UNCHANGED notRank

(***************************************************************************)
(* calc_ranked_records: tally and validation                               *)
(***************************************************************************)
RECURSIVE TallyTitles(_, _)
\* the tally loop over every cell of every ballot, a dict title -> count
TallyTitles(cells, counts) ==
    IF cells = <<>> THEN counts
    ELSE LET title == Head(cells)
             started == IF title \notin DOMAIN counts
                        THEN [t \in DOMAIN counts \cup {title} |->
                                 IF t = title THEN 0 ELSE counts[t]]
                        ELSE counts
         IN  TallyTitles(Tail(cells),
                         [started EXCEPT ![title] = started[title] + 1])

\* a slip in the tally: the count of the blank title stays in title_counts
TitleCounts_KeepBlank(rows) == TallyTitles(Flatten(rows), <<>>)

\* title_counts once the blank title is deleted from it
TitleCounts(rows) ==
    LET counts == TallyTitles(Flatten(rows), <<>>)
    IN  IF Blank \in DOMAIN counts THEN Without(counts, Blank) ELSE counts

\* len(list(filter(lambda title: title, title_row)))
VoteCount(title_row) ==
    LET truthy(title) == title # ""
    IN  Len(SelectSeq(title_row, truthy))

\* the message of the ValueError names line i + 2, i counted from 0
BallotLine(i) == i + 2

\* a slip in the threshold: a ballot with exactly 5 votes is not counted
IsCounted_Strict(vote_count) == vote_count > MinVotes

\* vote_count >= 5
IsCounted(vote_count) == vote_count >= MinVotes

RECURSIVE ValidateBallots(_, _, _)
\* the validation loop from ballot i (counted from 0) on: the ballots counted
\* so far, or the line of the ballot that raises
ValidateBallots(rows, i, counted) ==
    IF i >= Len(rows) THEN [raised |-> FALSE, line |-> 0, counted |-> counted]
    ELSE LET vote_count == VoteCount(rows[i + 1])
         IN  IF IsCounted(vote_count)
             THEN ValidateBallots(rows, i + 1, counted + 1)
             ELSE IF vote_count # 0
             THEN [raised |-> TRUE, line |-> BallotLine(i), counted |-> counted]
             ELSE ValidateBallots(rows, i + 1, counted)

calc_tally ==
    /\ pc = "calc"
    /\ LET v == ValidateBallots(title_rows, 0, 0)
       IN  /\ title_counts' = TitleCounts(title_rows)
           /\ counted_voters' = v.counted
           /\ IF v.raised
              THEN /\ pc' = "raised"
                   /\ err' = [kind |-> "ValueError", line |-> v.line]
              ELSE /\ pc' = "rank"
                   /\ err' = err
    /\ UNCHANGED <<title_rows, titles_to_urls, videos_data, titles_to_uploaders,
                   ranked_titles, tie_broken, records>>
    /\ UNCHANGED notRank

(***************************************************************************)
(* calc_ranked_records: percentages, tie break and ranking                 *)
(***************************************************************************)
\* a slip in the denominator: every ballot, the blank ones too
TitlePercentage_AllBallots(title) ==
    <<title_counts[title] * 100, Len(title_rows)>>

\* (count / counted_voters) * 100 as the fraction <<numerator, denominator>>
TitlePercentage(title) == <<title_counts[title] * 100, counted_voters>>

\* p > q for two fractions
PctGreater(p, q) == p[1] * q[2] > q[1] * p[2]

\* the keys of title_counts in insertion order
TitleOrder ==
    LET nonblank(title) == title # Blank
    IN  SelectSeq(FirstSeen(Flatten(title_rows), {}), nonblank)

\* percentage_groups[percentage]
PercentageGroup(percentage) ==
    LET tied(title) == TitlePercentage(title) = percentage
    IN  SelectSeq(TitleOrder, tied)

RECURSIVE SortedDescending(_)
\* sorted(percentage_groups, reverse=True)
SortedDescending(S) ==
    IF S = {} THEN <<>>
    ELSE LET top == CHOOSE p \in S : \A q \in S : ~PctGreater(q, p)
         IN  <<top>> \o SortedDescending(S \ {top})

\* sample_item_without_replacement(group): any item of the list, which the
\* call takes out of the list
SampleOutcomes(group) ==
    {[item |-> group[i], rest |-> RemoveAt(group, i)] : i \in DOMAIN group}

RECURSIVE DrainGroup(_)
\* the while loop over one percentage group: every order the sampling can give
DrainGroup(group) ==
    IF Len(group) = 0 THEN {<<>>}
    ELSE UNION {{<<o.item>> \o r : r \in DrainGroup(o.rest)} :
                   o \in SampleOutcomes(group)}

RECURSIVE RankOutcomes(_)
\* the loop over sorted_percentages: every ranked_titles it can build
RankOutcomes(percentages) ==
    IF percentages = <<>> THEN {<<>>}
    ELSE {a \o b : a \in DrainGroup(PercentageGroup(Head(percentages))),
                   b \in RankOutcomes(Tail(percentages))}

\* a slip in the tie test: a pair of tied titles is not flagged
TieBreakNeeded_Pairs(percentage_group) == Len(percentage_group) > 2

\* tie_break_needed = len(percentage_group) > 1
TieBreakNeeded(percentage_group) == Len(percentage_group) > 1

calc_rank ==
    /\ pc = "rank"
    /\ IF counted_voters = 0 /\ DOMAIN title_counts # {}
       THEN /\ pc' = "raised"
            /\ err' = [kind |-> "ZeroDivisionError", line |-> 0]
            /\ UNCHANGED <<ranked_titles, tie_broken>>
       ELSE /\ ranked_titles' \in
                   RankOutcomes(SortedDescending(
                       {TitlePercentage(t) : t \in DOMAIN title_counts}))
            /\ tie_broken' =
                   [t \in DOMAIN title_counts |->
                       TieBreakNeeded(PercentageGroup(TitlePercentage(t)))]
            /\ pc' = "build"
            /\ err' = err
    /\ UNCHANGED <<title_rows, titles_to_urls, videos_data, titles_to_uploaders,
                   title_counts, counted_voters, records>>
    /\ UNCHANGED notRank

(***************************************************************************)
(* calc_ranked_records: record construction                                *)
(***************************************************************************)
\* f"{percentage:.4f}%": the percentage rounded to 4 decimals, as the number
\* of 1/10000 percent.  (Halves, which the float decides, need 128 counted
\* ballots or more.)
FormatPercentage(p) == (2 * p[1] * 10000 + p[2]) \div (2 * p[2])

\* uploader if uploader is not None else ""
UploaderOrEmpty(uploader) == IF uploader # NoneVal THEN uploader ELSE ""

TieNote(broken) == IF broken THEN "Tie broken randomly by computer" ELSE ""

Record(title) ==
    [ Title |-> title,
      Uploader |-> UploaderOrEmpty(titles_to_uploaders[title]),
      Percentage |-> FormatPercentage(TitlePercentage(title)),
      TotalVotes |-> title_counts[title],
      URL |-> titles_to_urls[title],
      Notes |-> TieNote(tie_broken[title]) ]

calc_records ==
    /\ pc = "build"
    /\ IF \A i \in DOMAIN ranked_titles :
              /\ ranked_titles[i] \in DOMAIN titles_to_uploaders
              /\ ranked_titles[i] \in DOMAIN titles_to_urls
       THEN /\ records' = [i \in DOMAIN ranked_titles |-> Record(ranked_titles[i])]
            /\ pc' = "done"
            /\ err' = err
       ELSE /\ records' = records
            /\ pc' = "raised"
            /\ err' = [kind |-> "KeyError", line |-> 0]
    /\ UNCHANGED <<title_rows, titles_to_urls, videos_data, titles_to_uploaders,
                   title_counts, counted_voters, ranked_titles, tie_broken>>
    /\ UNCHANGED notRank

NextRank == get_titles_to_uploaders \/ calc_tally \/ calc_rank \/ calc_records

SpecRank == InitRank /\ [][NextRank]_vars

SpecMeta == InitMeta /\ [][NextRank]_vars

(***************************************************************************)
(* Properties of the ranking engine                                        *)
(***************************************************************************)
\* the non-blank slots of a ballot
NonBlankSlots(row) == {j \in DOMAIN row : row[j] # ""}

\* the ballots (counted from 1) with 1 to 4 votes
InvalidBallots == {i \in DOMAIN title_rows :
                      Cardinality(NonBlankSlots(title_rows[i])) \in 1..4}

\* the ballots with 5 votes or more
CountedBallots == {i \in DOMAIN title_rows :
                      Cardinality(NonBlankSlots(title_rows[i])) >= 5}

\* the validation loop of calc_ranked_records is over
Validated == pc \in {"rank", "build", "done", "raised"}

\* C1: once the ballots are validated, a ballot with 1 to 4 votes has made
\* the call raise a ValueError that names line i + 2 for the first such ballot
\* (i counted from 0) and no record exists; otherwise no ValueError is
\* raised, blank ballots are passed over and counted_voters is the number of
\* ballots with 5 votes or more.
C1_BallotValidation ==
    Validated =>
        IF InvalidBallots # {}
        THEN /\ pc = "raised"
             /\ err.kind = "ValueError"
             /\ \E i \in InvalidBallots :
                    /\ \A k \in InvalidBallots : i <= k
                    /\ err.line = (i - 1) + 2
             /\ records = <<>>
        ELSE /\ err.kind # "ValueError"
             /\ counted_voters = Cardinality(CountedBallots)

\* a blank ballot was passed over, then the second ballot raised for line 3
C1_Witness ==
    /\ pc = "raised"
    /\ err = [kind |-> "ValueError", line |-> 3]
    /\ Len(title_rows) = 3
    /\ NonBlankSlots(title_rows[1]) = {}
    /\ Cardinality(NonBlankSlots(title_rows[2])) = 4

\* the slots <<ballot, slot>> that hold a title
SlotsOf(title) == {c \in (DOMAIN title_rows) \X (1..6) :
                      c[2] \in DOMAIN title_rows[c[1]]
                      /\ title_rows[c[1]][c[2]] = title}

\* the distinct non-blank titles of the ballots
VotedTitles == {title_rows[i][j] : i \in DOMAIN title_rows, j \in 1..6} \ {""}

\* r is votes / counted * 100 to 4 decimals, in 1/10000 percent
IsPercentOf(r, votes, counted) ==
    /\ 2 * (r * counted - votes * 1000000) <= counted
    /\ 2 * (votes * 1000000 - r * counted) <= counted

\* C2: when calc_ranked_records returns there is exactly one record per
\* distinct non-blank title of the ballots and none for the blank title; its
\* Total Votes is the number of slots holding the title and its percentage is
\* Total Votes / counted ballots * 100, to 4 decimals.
C2_RecordsTally ==
    pc = "done" =>
        /\ Len(records) = Cardinality(VotedTitles)
        /\ {records[i].Title : i \in DOMAIN records} = VotedTitles
        /\ \A i \in DOMAIN records :
               /\ records[i].TotalVotes = Cardinality(SlotsOf(records[i].Title))
               /\ IsPercentOf(records[i].Percentage, records[i].TotalVotes,
                              Cardinality(CountedBallots))

\* three counted ballots: records with 33.3333% and with 66.6667%
C2_Witness ==
    /\ pc = "done"
    /\ Cardinality(CountedBallots) = 3
    /\ {333333, 666667} \subseteq {records[i].Percentage : i \in DOMAIN records}

\* a listing of the titles S, one order for each permutation of S
OrderingsOf(S, base) ==
    {[i \in DOMAIN base |-> f[base[i]]] : f \in Permutations(S)}

\* the orderings of the tallied titles in which no title stands before one with
\* more votes
RankedOrderings ==
    {s \in OrderingsOf(DOMAIN title_counts, TitleOrder) :
        \A i, j \in DOMAIN s :
            i < j => title_counts[s[i]] >= title_counts[s[j]]}

\* C3: the records are in non-increasing percentage order whatever the
\* sampling gave; Notes is non-empty exactly for a title that shares its
\* percentage with another title; and before the ranking every ordering that
\* respects the percentages, so every order of a tied group, is a possible
\* ranking.
C3_RankingAndTies ==
    /\ pc = "done" =>
           /\ \A i, j \in DOMAIN records :
                  i < j => records[i].Percentage >= records[j].Percentage
           /\ \A i \in DOMAIN records :
                  records[i].Notes # "" <=>
                      \E j \in DOMAIN records :
                          /\ j # i
                          /\ records[j].Percentage = records[i].Percentage
    /\ pc = "rank" /\ counted_voters > 0 =>
           RankOutcomes(SortedDescending(
               {TitlePercentage(t) : t \in DOMAIN title_counts})) = RankedOrderings

\* a tied group came out against its insertion order (D before B, both
\* flagged) next to a title with a percentage of its own, unflagged
C3_Witness ==
    /\ pc = "done"
    /\ \E i, j, k \in DOMAIN records :
           /\ i < j
           /\ records[i].Title = "D" /\ records[j].Title = "B"
           /\ records[i].Percentage = records[j].Percentage
           /\ records[i].Notes # "" /\ records[j].Notes # ""
           /\ records[k].Notes = ""

\* the lookup title -> URL -> fetched data -> uploader finds nothing
MetadataMissing(title) ==
    \/ title \notin DOMAIN titles_to_urls
    \/ titles_to_urls[title] \notin DOMAIN videos_data
    \/ videos_data[titles_to_urls[title]].none
    \/ "uploader" \notin videos_data[titles_to_urls[title]].keys
    \/ videos_data[titles_to_urls[title]].uploader = NoneVal

\* C4: building the ranked records never raises for missing metadata: no
\* KeyError ends get_titles_to_uploaders or calc_ranked_records, and the
\* record of a title without metadata has the unknown (empty) uploader.
C4_MissingMetadataDegrades ==
    /\ err.kind # "KeyError"
    /\ pc = "done" =>
           \A i \in DOMAIN records :
               MetadataMissing(records[i].Title) => records[i].Uploader = ""

(***************************************************************************)
(* get_history                                                             *)
(***************************************************************************)
\* the archive is read from CSV: month and year are text
ArchiveRecords ==
    [ month : {<<"4">>, <<"0", "4">>, <<"5">>},
      year : {<<"2", "0", "1", "9">>, <<"2", "0", "1", "4">>},
      title : {"p", "q"} ]

\* the reference date is in 2024; the offsets reach back 5, 10 and 2024 years
FromDates == [month : {4, 5}, year : {2024}]
Anniversaries == {5, 10, 2024}

InitHist ==
    /\ archive_records \in SeqsUpTo(ArchiveRecords, MaxArchive)
    /\ from_date \in FromDates
    /\ anniversaries \in SeqsUpTo(Anniversaries, MaxAnniversaries)
    /\ history_records = <<>>
    /\ hist_pc = "call"
    /\ RankIdle /\ MapIdle /\ DurIdle /\ FetchIdle /\ DateIdle

\* (int(archive_record["month"]), int(archive_record["year"]))
MonthYear(archive_record) ==
    <<PyInt(archive_record.month), PyInt(archive_record.year)>>

RECURSIVE IndexByMonthYear(_, _)
\* the loop that indexes the archive records by month-year
IndexByMonthYear(archive, month_year_records) ==
    IF archive = <<>> THEN month_year_records
    ELSE LET month_year == MonthYear(Head(archive))
             started == IF month_year \notin DOMAIN month_year_records
                        THEN DictSet(month_year_records, month_year, <<>>)
                        ELSE month_year_records
         IN  IndexByMonthYear(
                 Tail(archive),
                 [started EXCEPT ![month_year] = Append(@, Head(archive))])

RECURSIVE HistoryLoop(_, _, _)
\* the loop over the anniversaries: the history records, unless building the
\* date of the warning raised
HistoryLoop(annis, month_year_records, history) ==
    IF annis = <<>> THEN [raised |-> FALSE, history |-> history]
    ELSE LET num_years == Head(annis)
             anni_year == from_date.year - num_years
         IN  IF <<from_date.month, anni_year>> \in DOMAIN month_year_records
             THEN HistoryLoop(
                      Tail(annis), month_year_records,
                      DictSet(history, num_years,
                              month_year_records[<<from_date.month, anni_year>>]))
             ELSE IF ~DatetimeOk(anni_year, from_date.month, 1)
             THEN [raised |-> TRUE, history |-> history]
             ELSE HistoryLoop(Tail(annis), month_year_records, history)

get_history ==
    /\ hist_pc = "call"
    /\ IF \E i \in DOMAIN archive_records :
              ~IsInt(archive_records[i].month) \/ ~IsInt(archive_records[i].year)
       THEN /\ hist_pc' = "raised"
            /\ history_records' = <<>>
       ELSE LET out == HistoryLoop(anniversaries,
                                   IndexByMonthYear(archive_records, <<>>), <<>>)
            IN  IF out.raised
                THEN /\ hist_pc' = "raised"
                     /\ history_records' = <<>>
                ELSE /\ hist_pc' = "done"
                     /\ history_records' = out.history
    /\ UNCHANGED <<archive_records, from_date, anniversaries>>
    /\ UNCHANGED notHist

NextHist == get_history

SpecHist == InitHist /\ [][NextHist]_vars

\* the archive records of the reference month, N years before the reference
\* year, in archive order
AnniversaryRecords(N) ==
    LET hit(r) == /\ PyInt(r.month) = from_date.month
                  /\ PyInt(r.year) = from_date.year - N
    IN  SelectSeq(archive_records, hit)

\* C5: get_history always returns, and the keys of its result are exactly the
\* offsets N with at least one archive record of the reference month and of
\* the year N before the reference year, each with all those records in
\* archive order; an offset without records is left out and stops nothing.
C5_HistoryOfEveryOffset ==
    hist_pc \in {"done", "raised"} =>
        /\ hist_pc = "done"
        /\ DOMAIN history_records =
               {N \in Range(anniversaries) : AnniversaryRecords(N) # <<>>}
        /\ \A N \in DOMAIN history_records :
               history_records[N] = AnniversaryRecords(N)

(***************************************************************************)
(* get_titles_to_urls_mapping                                              *)
(***************************************************************************)
MapTitles == {"A", "B"}
MapUrls == {"u", "v"}

InitMap ==
    /\ map_title_rows \in SeqsUpTo(SeqsUpTo(MapTitles, MaxCols), MaxRows)
    /\ map_url_rows \in SeqsUpTo(SeqsUpTo(MapUrls, MaxCols), MaxRows)
    /\ map_titles_to_urls = <<>>
    /\ map_pc = "call"
    /\ RankIdle /\ HistIdle /\ DurIdle /\ FetchIdle /\ DateIdle

RECURSIVE ZipRow(_, _, _)
\* for title, url in zip(title_row, url_row): stops at the shorter row
ZipRow(title_row, url_row, mapping) ==
    IF title_row = <<>> \/ url_row = <<>> THEN mapping
    ELSE ZipRow(Tail(title_row), Tail(url_row),
                DictSet(mapping, Head(title_row), Head(url_row)))

RECURSIVE ZipRows(_, _, _)
\* for title_row, url_row in zip(title_rows, url_rows, strict=True): raises
\* ValueError when one table runs out before the other
ZipRows(t_rows, u_rows, mapping) ==
    IF t_rows = <<>> /\ u_rows = <<>>
    THEN [raised |-> FALSE, mapping |-> mapping]
    ELSE IF t_rows = <<>> \/ u_rows = <<>>
    THEN [raised |-> TRUE, mapping |-> mapping]
    ELSE ZipRows(Tail(t_rows), Tail(u_rows),
                 ZipRow(Head(t_rows), Head(u_rows), mapping))

get_titles_to_urls_mapping ==
    /\ map_pc = "call"
    /\ LET out == ZipRows(map_title_rows, map_url_rows, <<>>)
       IN  IF out.raised
           THEN /\ map_pc' = "raised"
                /\ map_titles_to_urls' = <<>>
           ELSE /\ map_pc' = "done"
                /\ map_titles_to_urls' = out.mapping
    /\ UNCHANGED <<map_title_rows, map_url_rows>>
    /\ UNCHANGED notMap

NextMap == get_titles_to_urls_mapping

SpecMap == InitMap /\ [][NextMap]_vars

\* the two tables have as many rows, and each pair of rows as many cells
SameShape ==
    /\ Len(map_title_rows) = Len(map_url_rows)
    /\ \A r \in DOMAIN map_title_rows :
           Len(map_title_rows[r]) = Len(map_url_rows[r])

\* C6: get_titles_to_urls_mapping fails whenever the tables differ in their
\* number of rows or two corresponding rows differ in length; for tables of
\* the same shape it returns a mapping that takes the title at each (row,
\* column) to the URL at the same (row, column).
C6_ShapeMismatchFails ==
    map_pc \in {"done", "raised"} =>
        IF SameShape
        THEN /\ map_pc = "done"
             /\ \A r \in DOMAIN map_title_rows :
                    \A c \in DOMAIN map_title_rows[r] :
                        /\ map_title_rows[r][c] \in DOMAIN map_titles_to_urls
                        /\ map_titles_to_urls[map_title_rows[r][c]]
                               = map_url_rows[r][c]
        ELSE map_pc = "raised"

(***************************************************************************)
(* convert_iso8601_duration_to_seconds                                     *)
(***************************************************************************)
\* c in text, for one character c
HasChar(text, c) == \E i \in DOMAIN text : text[i] = c

RECURSIVE Split(_, _)
\* text.split(sep), for one character sep
Split(text, sep) ==
    IF ~HasChar(text, sep) THEN <<text>>
    ELSE LET i == CHOOSE k \in DOMAIN text :
                      text[k] = sep /\ \A j \in 1..(k - 1) : text[j] # sep
         IN  <<SubSeq(text, 1, i - 1)>>
                 \o Split(SubSeq(text, i + 1, Len(text)), sep)

\* text.replace(c, "")
RemoveChar(text, c) ==
    LET other(x) == x # c
    IN  SelectSeq(text, other)

\* text.startswith(prefix)
StartsWith(text, prefix) ==
    Len(text) >= Len(prefix) /\ SubSeq(text, 1, Len(prefix)) = prefix

\* if iso8601_duration.startswith("PT"): iso8601_duration = iso8601_duration[2:]
StripMarker(text) ==
    IF StartsWith(text, <<"P", "T">>) THEN SubSeq(text, 3, Len(text)) ELSE text

\* if unit in duration: part, duration = duration.split(unit); int(part).
\* The unpacking raises unless the split gives two parts, and int raises
\* unless the part is a number.
TakeComponent(text, unit) ==
    IF ~HasChar(text, unit)
    THEN [raised |-> FALSE, value |-> 0, rest |-> text]
    ELSE LET parts == Split(text, unit)
         IN  IF Len(parts) # 2 \/ ~IsInt(parts[1])
             THEN [raised |-> TRUE, value |-> 0, rest |-> text]
             ELSE [raised |-> FALSE, value |-> PyInt(parts[1]),
                   rest |-> parts[2]]

\* if "S" in duration: int(duration.replace("S", ""))
TakeSeconds(text) ==
    IF ~HasChar(text, "S") THEN [raised |-> FALSE, value |-> 0]
    ELSE LET seconds_part == RemoveChar(text, "S")
         IN  IF ~IsInt(seconds_part) THEN [raised |-> TRUE, value |-> 0]
             ELSE [raised |-> FALSE, value |-> PyInt(seconds_part)]

\* a slip in the sum: the minutes are added as seconds
TotalSeconds_MinutesAsSeconds(hours, minutes, seconds) ==
    hours * 3600 + minutes + seconds

\* total_seconds = hours * 3600 + minutes * 60 + seconds
TotalSeconds(hours, minutes, seconds) ==
    hours * 3600 + minutes * 60 + seconds

\* the whole conversion: the seconds, or a ValueError
ConvertDuration(text) ==
    LET hours == TakeComponent(StripMarker(text), "H")
        minutes == TakeComponent(hours.rest, "M")
        seconds == TakeSeconds(minutes.rest)
    IN  IF hours.raised THEN [raised |-> TRUE, total |-> 0]
        ELSE IF minutes.raised THEN [raised |-> TRUE, total |-> 0]
        ELSE IF seconds.raised THEN [raised |-> TRUE, total |-> 0]
        ELSE [raised |-> FALSE,
              total |-> TotalSeconds(hours.value, minutes.value, seconds.value)]

DurDigits == {"0", "1", "3"}

\* a component is absent, <<>>, or written with some digits (possibly none),
\* <<digits>>
DurComponents ==
    {<<>>} \cup {<<digits>> : digits \in SeqsUpTo(DurDigits, MaxDigits)}

\* the text of a component with its unit letter
ComponentText(part, unit) == IF part = <<>> THEN <<>> ELSE part[1] \o <<unit>>

\* the duration text written from its parts
DurationText(parts) ==
    (IF parts.marker THEN <<"P", "T">> ELSE <<>>)
        \o ComponentText(parts.h, "H") \o ComponentText(parts.m, "M")
        \o ComponentText(parts.s, "S")

InitDur ==
    /\ duration_parts \in [marker : BOOLEAN, h : DurComponents,
                           m : DurComponents, s : DurComponents]
    /\ iso8601_duration = DurationText(duration_parts)
    /\ total_seconds = 0
    /\ dur_pc = "call"
    /\ RankIdle /\ HistIdle /\ MapIdle /\ FetchIdle /\ DateIdle

convert_iso8601_duration_to_seconds ==
    /\ dur_pc = "call"
    /\ LET out == ConvertDuration(iso8601_duration)
       IN  IF out.raised
           THEN /\ dur_pc' = "raised"
                /\ total_seconds' = total_seconds
           ELSE /\ dur_pc' = "done"
                /\ total_seconds' = out.total
    /\ UNCHANGED <<iso8601_duration, duration_parts>>
    /\ UNCHANGED notDur

NextDur == convert_iso8601_duration_to_seconds

SpecDur == InitDur /\ [][NextDur]_vars

RECURSIVE DecimalValue(_)
\* the number a run of decimal digits stands for
DecimalValue(digits) ==
    IF digits = <<>> THEN 0
    ELSE 10 * DecimalValue(SubSeq(digits, 1, Len(digits) - 1))
             + DigitValue(digits[Len(digits)])

\* the number of a component, 0 when it is absent
ComponentValue(part) == IF part = <<>> THEN 0 ELSE DecimalValue(part[1])

\* the text is "PT" followed by any of <h>H, <m>M, <s>S, each with a number
WellFormedDuration ==
    /\ duration_parts.marker
    /\ \A part \in {duration_parts.h, duration_parts.m, duration_parts.s} :
           part = <<>> \/ part[1] # <<>>

\* C10: for "PT" followed by any subset of <h>H, <m>M and <s>S in that order
\* (the empty subset too) the conversion returns h * 3600 + m * 60 + s, an
\* absent component counting as 0.
C10_DurationSeconds ==
    dur_pc \in {"done", "raised"} /\ WellFormedDuration =>
        /\ dur_pc = "done"
        /\ total_seconds = ComponentValue(duration_parts.h) * 3600
                               + ComponentValue(duration_parts.m) * 60
                               + ComponentValue(duration_parts.s)

\* "PT1H3M10S" gave 3790
C10_Witness ==
    /\ dur_pc = "done"
    /\ iso8601_duration = <<"P", "T", "1", "H", "3", "M", "1", "0", "S">>
    /\ total_seconds = 3790

(***************************************************************************)
(* Fetch services: URLs                                                    *)
(***************************************************************************)
\* pattern in text
Contains(text, pattern) ==
    \E i \in 1..(Len(text) - Len(pattern) + 1) :
        SubSeq(text, i, i + Len(pattern) - 1) = pattern

\* text.endswith(suffix)
EndsWith(text, suffix) ==
    /\ Len(text) >= Len(suffix)
    /\ SubSeq(text, Len(text) - Len(suffix) + 1, Len(text)) = suffix

\* text.rfind(c) + 1: the place of the last c, 0 when there is none
RFind(text, c) ==
    IF ~HasChar(text, c) THEN 0
    ELSE CHOOSE i \in DOMAIN text :
             text[i] = c /\ \A j \in (i + 1)..Len(text) : text[j] # c

\* url[0 : url.rfind("/")]; rfind gives -1 when there is no "/", and the
\* slice then drops the last character
BeforeLastSlash(text) ==
    IF RFind(text, "/") = 0 THEN SubSeq(text, 1, Len(text) - 1)
    ELSE SubSeq(text, 1, RFind(text, "/") - 1)

\* url[url.rfind("/") + 1 :]
AfterLastSlash(text) == SubSeq(text, RFind(text, "/") + 1, Len(text))

\* the place of the first "/", "?" or "#" of text, Len(text) + 1 if none
AuthorityEnd(text) ==
    IF \E i \in DOMAIN text : text[i] \in {"/", "?", "#"}
    THEN CHOOSE i \in DOMAIN text :
             /\ text[i] \in {"/", "?", "#"}
             /\ \A j \in 1..(i - 1) : text[j] \notin {"/", "?", "#"}
    ELSE Len(text) + 1

\* urlparse(url).netloc: what stands between "//" and the next "/", "?", "#"
Netloc(text) ==
    IF Len(text) >= 3 /\ SubSeq(text, 1, 3) = <<"https:", "/", "/">>
    THEN LET rest == SubSeq(text, 4, Len(text))
         IN  SubSeq(rest, 1, AuthorityEnd(rest) - 1)
    ELSE <<>>

Scheme == <<"https:", "/", "/">>

Hosts ==
    { <<"x", ".", "com">>, <<"twitter", ".", "com">>,
      <<"www", ".", "twitter", ".", "com">>, <<"youtube", ".", "com">>,
      <<"youtu", ".", "be">>, <<"vimeo", ".", "com">>, <<"localhost">> }

PathWords == {"status", "video", "1", "2"}

RECURSIVE PathOf(_)
\* the path with these segments
PathOf(segs) ==
    IF segs = <<>> THEN <<>> ELSE <<"/", Head(segs)>> \o PathOf(Tail(segs))

\* what may follow the path: nothing, a slash, a query, a query that names
\* another site
UrlEndings ==
    { <<>>, <<"/">>, <<"?", "s", "=", "2", "0">>,
      <<"?", "u", "=", "youtube", ".", "com">>,
      <<"?", "u", "=", "x", ".", "com">> }

Urls ==
    {Scheme \o host \o PathOf(segs) \o ending :
        host \in Hosts, segs \in SeqsUpTo(PathWords, MaxSegs),
        ending \in UrlEndings}

\* the accepted domains the yt-dlp service is constructed with
accepted_domains ==
    {<<"x", ".", "com">>, <<"twitter", ".", "com">>, <<"vimeo", ".", "com">>}

InitFetch ==
    /\ url \in Urls
    /\ can_youtube = FALSE
    /\ can_ytdlp = FALSE
    /\ fetch_env = NoFetchEnv
    /\ fetch_out = NoFetchOut
    /\ fetch_pc = "ready"
    /\ RankIdle /\ HistIdle /\ MapIdle /\ DurIdle /\ DateIdle

(***************************************************************************)
(* can_fetch of both services                                              *)
(***************************************************************************)
\* "youtube.com" in url or "youtu.be" in url
YouTubeCanFetch(u) ==
    Contains(u, <<"youtube", ".", "com">>) \/ Contains(u, <<"youtu", ".", "be">>)

\* any(domain in url for domain in self.accepted_domains)
YtDlpCanFetch(u) == \E domain \in accepted_domains : Contains(u, domain)

can_fetch ==
    /\ fetch_pc = "ready"
    /\ can_youtube' = YouTubeCanFetch(url)
    /\ can_ytdlp' = YtDlpCanFetch(url)
    /\ fetch_pc' = "matched"
    /\ UNCHANGED <<url, fetch_env, fetch_out>>
    /\ UNCHANGED notFetch

(***************************************************************************)
(* YouTubeFetchService.request                                             *)
(***************************************************************************)
\* the items of an API response
ApiItems ==
    { [title |-> "t1", duration |-> <<"P", "T", "1", "M">>],
      [title |-> "t2", duration |-> <<"P", "T", "3", "S">>] }

\* what normalize_youtube_url and the API can answer: no video id; or an id
\* and the request raises, gives None, or gives a response with items
YouTubeEnvs ==
    {[NoFetchEnv EXCEPT !.video_id = FALSE]}
    \cup {[NoFetchEnv EXCEPT !.video_id = TRUE, !.api = a] :
             a \in {"raises", "none"}}
    \cup {[NoFetchEnv EXCEPT !.video_id = TRUE, !.api = "items", !.items = it] :
             it \in SeqsUpTo(ApiItems, MaxItems)}

Failure(kind, named) ==
    [NoFetchOut EXCEPT !.kind = kind, !.message_url = named]

YouTubeRequest(u, env) ==
    IF ~env.video_id THEN Failure("ValueError", u)
    ELSE IF env.api = "raises" THEN Failure("FetchRequestError", u)
    ELSE IF env.api = "none" THEN Failure("FetchRequestError", u)
    ELSE IF env.items = <<>> THEN Failure("VideoUnavailableError", <<>>)
    ELSE LET response_item == env.items[1]
             seconds == ConvertDuration(response_item.duration)
         IN  IF seconds.raised THEN Failure("ValueError", <<>>)
             ELSE [kind |-> "ok", message_url |-> <<>>,
                   title |-> response_item.title,
                   duration |-> <<seconds.total>>,
                   platform |-> <<"YouTube">>]

youtube_request ==
    /\ fetch_pc = "ready"
    /\ \E env \in YouTubeEnvs :
           /\ fetch_env' = env
           /\ fetch_out' = YouTubeRequest(url, env)
    /\ fetch_pc' = "youtube_done"
    /\ UNCHANGED <<url, can_youtube, can_ytdlp>>
    /\ UNCHANGED notFetch

(***************************************************************************)
(* YtDlpFetchService.request                                               *)
(***************************************************************************)
\* what yt-dlp can answer: the extraction raises, or gives a response (its
\* first entry, for a playlist) with or without a title and a duration
YtDlpEnvs ==
    {[NoFetchEnv EXCEPT !.extract = "raises"]}
    \cup {[NoFetchEnv EXCEPT !.extract = "ok", !.title = t, !.duration = d] :
             t \in BOOLEAN, d \in {<<>>, <<93>>}}

\* site.capitalize(), for the sites of the model
Capitalize(site) ==
    CASE site = <<"twitter">> -> <<"Twitter">>
      [] site = <<"vimeo">> -> <<"Vimeo">>
      [] site = <<"youtube">> -> <<"Youtube">>
      [] site = <<"youtu">> -> <<"Youtu">>
      [] OTHER -> site

\* the test of the twitter case: the text before the last "/" ends with
\* "/video" and (evaluated only then) int of the text after it is not 1
EndsWithVideo(u) == EndsWith(BeforeLastSlash(u), <<"/", "video">>)

\* the twitter | x case of the match, after the title is made
TwitterCase(u, env) ==
    IF EndsWithVideo(u) /\ ~IsInt(AfterLastSlash(u))
    THEN Failure("ValueError", <<>>)
    ELSE [kind |-> "ok", message_url |-> <<>>, title |-> "X post",
          duration |-> IF EndsWithVideo(u) /\ PyInt(AfterLastSlash(u)) # 1
                       THEN <<>> ELSE env.duration,
          platform |-> Capitalize(<<"twitter">>)]

\* The cases newgrounds, tiktok, bilibili, bsky, pony and thishorsie rename
\* fields of the response; no host of the model reaches them.
YtDlpRequest(u, env) ==
    LET labels == Split(Netloc(u), ".")
    IN  IF Len(labels) < 2 THEN Failure("IndexError", <<>>)
        ELSE LET site == IF Len(labels) = 2 THEN labels[1] ELSE labels[2]
             IN  IF env.extract = "raises" THEN Failure("FetchRequestError", u)
                 ELSE IF site \in {<<"twitter">>, <<"x">>}
                 THEN IF ~env.title THEN Failure("AttributeError", <<>>)
                      ELSE TwitterCase(u, env)
                 ELSE [kind |-> "ok", message_url |-> <<>>, title |-> "raw",
                       duration |-> env.duration,
                       platform |-> Capitalize(site)]

ytdlp_request ==
    /\ fetch_pc = "ready"
    /\ \E env \in YtDlpEnvs :
           /\ fetch_env' = env
           /\ fetch_out' = YtDlpRequest(url, env)
    /\ fetch_pc' = "ytdlp_done"
    /\ UNCHANGED <<url, can_youtube, can_ytdlp>>
    /\ UNCHANGED notFetch

NextFetch == can_fetch \/ youtube_request \/ ytdlp_request

SpecFetch == InitFetch /\ [][NextFetch]_vars

(***************************************************************************)
(* Properties of the fetch services                                        *)
(***************************************************************************)
\* C7: YouTubeFetchService.request fails with FetchRequestError naming the
\* URL when no video id can be extracted, with FetchRequestError when the
\* API request raises or answers None, with VideoUnavailableError when the
\* response has no items, and yields a record, built from the first item, only
\* for a response with at least one item.
C7_RequestErrorKinds ==
    fetch_pc = "youtube_done" =>
        /\ ~fetch_env.video_id =>
               /\ fetch_out.kind = "FetchRequestError"
               /\ fetch_out.message_url = url
        /\ fetch_env.video_id /\ fetch_env.api \in {"raises", "none"} =>
               fetch_out.kind = "FetchRequestError"
        /\ fetch_env.video_id /\ fetch_env.api = "items"
               /\ fetch_env.items = <<>> =>
               fetch_out.kind = "VideoUnavailableError"
        /\ fetch_out.kind = "ok" <=>
               /\ fetch_env.video_id
               /\ fetch_env.api = "items"
               /\ fetch_env.items # <<>>
        /\ fetch_out.kind = "ok" => fetch_out.title = fetch_env.items[1].title

\* the path of a URL: what stands between the host and a "?" or "#"
UrlPath(u) ==
    LET rest == SubSeq(u, 4 + Len(Netloc(u)), Len(u))
        stop == IF \E i \in DOMAIN rest : rest[i] \in {"?", "#"}
                THEN CHOOSE i \in DOMAIN rest :
                         /\ rest[i] \in {"?", "#"}
                         /\ \A j \in 1..(i - 1) : rest[j] \notin {"?", "#"}
                ELSE Len(rest) + 1
    IN  SubSeq(rest, 1, stop - 1)

\* the URL is ".../video/<n>", with or without a query after the index
HasVideoIndex(u) ==
    LET path == UrlPath(u)
    IN  /\ Len(path) >= 4
        /\ SubSeq(path, Len(path) - 3, Len(path) - 1) = <<"/", "video", "/">>
        /\ path[Len(path)] \in Digit

VideoIndex(u) == DigitValue(UrlPath(u)[Len(UrlPath(u))])

\* a twitter or x URL
IsTwitterUrl(u) ==
    Netloc(u) \in {<<"x", ".", "com">>, <<"twitter", ".", "com">>,
                   <<"www", ".", "twitter", ".", "com">>}

\* C8: for a twitter/x URL ".../video/<n>", with or without a query after
\* the index, and yt-dlp answering, the request does not fail; the duration of
\* the record is absent when n is not 1 and is the extractor's duration when n
\* is 1.
C8_TwitterVideoIndex ==
    /\ fetch_pc = "ytdlp_done"
    /\ IsTwitterUrl(url) /\ HasVideoIndex(url)
    /\ fetch_env.extract = "ok" /\ fetch_env.title
    => /\ fetch_out.kind = "ok"
       /\ fetch_out.duration =
              IF VideoIndex(url) # 1 THEN <<>> ELSE fetch_env.duration

\* the host of the URL is the domain or a subdomain of it
HostIs(u, domain) ==
    Netloc(u) = domain \/ EndsWith(Netloc(u), <<".">> \o domain)

\* C9: the YouTube service claims a URL only when its host is youtube.com or
\* youtu.be, the yt-dlp service only when its host is an accepted domain, and
\* (no accepted domain being a YouTube domain) no URL is claimed by both.
C9_HostDecidesService ==
    fetch_pc = "matched" =>
        /\ can_youtube =>
               \/ HostIs(url, <<"youtube", ".", "com">>)
               \/ HostIs(url, <<"youtu", ".", "be">>)
        /\ can_ytdlp => \E domain \in accepted_domains : HostIs(url, domain)
        /\ ~(can_youtube /\ can_ytdlp)

(***************************************************************************)
(* parse_votes_csv_timestamp                                               *)
(***************************************************************************)
Whitespace == {" ", "\n", "\t"}

RECURSIVE LStrip(_)
LStrip(text) ==
    IF text # <<>> /\ Head(text) \in Whitespace THEN LStrip(Tail(text))
    ELSE text

RECURSIVE RStrip(_)
RStrip(text) ==
    IF text # <<>> /\ text[Len(text)] \in Whitespace
    THEN RStrip(SubSeq(text, 1, Len(text) - 1))
    ELSE text

\* timestamp.strip()
Strip(text) == RStrip(LStrip(text))

RECURSIVE DigitRun(_)
\* what (\d+) takes: the longest run of digits the text starts with
DigitRun(text) ==
    IF text # <<>> /\ Head(text) \in Digit
    THEN <<Head(text)>> \o DigitRun(Tail(text))
    ELSE <<>>

\* the characters between the groups of the pattern
\* ^(\d+)/(\d+)/(\d+) (\d+):(\d+):(\d+)$
PatternLiterals == <<"/", "/", " ", ":", ":">>

RECURSIVE MatchGroups(_, _)
\* re.match(pattern, timestamp).groups(), or <<>> when there is no match.
\* A group is followed by a character that is no digit, so the longest run is
\* the only candidate; the text is stripped, so $ matches at its end only.
MatchGroups(text, literals) ==
    LET group == DigitRun(text)
        rest == SubSeq(text, Len(group) + 1, Len(text))
    IN  IF group = <<>> THEN <<>>
        ELSE IF literals = <<>>
        THEN (IF rest = <<>> THEN <<group>> ELSE <<>>)
        ELSE IF rest = <<>> THEN <<>>
        ELSE IF Head(rest) # Head(literals) THEN <<>>
        ELSE LET more == MatchGroups(Tail(rest), Tail(literals))
             IN  IF more = <<>> THEN <<>> ELSE <<group>> \o more

RECURSIVE ZFill_Right(_, _)
\* a slip in the padding: the zeros are added after the digits
ZFill_Right(text, width) ==
    IF Len(text) >= width THEN text ELSE ZFill_Right(text \o <<"0">>, width)

RECURSIVE ZFill(_, _)
\* text.zfill(width)
ZFill(text, width) ==
    IF Len(text) >= width THEN text ELSE ZFill(<<"0">> \o text, width)

\* what %m, %d, %H, %M and %S of strptime accept: one or two digits with a
\* value in range; the next character of the format is no digit, so the
\* directive must take the whole field
TwoDigitField(text, lo, hi) == Len(text) \in 1..2 /\ PyInt(text) \in lo..hi

\* %Y accepts four digits
YearField(text) == Len(text) = 4

\* datetime.strptime(processed_timestamp, "%m/%d/%Y %H:%M:%S") returns
StrptimeOk(month, day, year, hour, minute, second) ==
    /\ TwoDigitField(month, 1, 12)
    /\ TwoDigitField(day, 1, 31)
    /\ YearField(year)
    /\ TwoDigitField(hour, 0, 23)
    /\ TwoDigitField(minute, 0, 59)
    /\ TwoDigitField(second, 0, 59)
    /\ DatetimeOk(PyInt(year), PyInt(month), PyInt(day))

\* the whole of parse_votes_csv_timestamp: the timezone-less datetime, or the
\* ValueError of the pattern ("invalid format") or of strptime
ParseTimestamp(text) ==
    LET date_components == MatchGroups(Strip(text), PatternLiterals)
    IN  IF date_components = <<>>
        THEN [kind |-> "ValueError", message |-> "invalid format",
              dt |-> NoDatetime]
        ELSE LET month == ZFill(date_components[1], 2)
                 day == ZFill(date_components[2], 2)
                 year == ZFill(date_components[3], 4)
                 hour == ZFill(date_components[4], 2)
                 minute == ZFill(date_components[5], 2)
                 second == ZFill(date_components[6], 2)
             IN  IF ~StrptimeOk(month, day, year, hour, minute, second)
                 THEN [kind |-> "ValueError", message |-> "strptime",
                       dt |-> NoDatetime]
                 ELSE [kind |-> "ok", message |-> "",
                       dt |-> [year |-> PyInt(year), month |-> PyInt(month),
                               day |-> PyInt(day), hour |-> PyInt(hour),
                               minute |-> PyInt(minute),
                               second |-> PyInt(second)]]

\* the month is written with any digits; the other fields are written short,
\* zero-padded or out of range
TsDigits == {"0", "1", "2"}
MonthTexts == SeqsUpTo(TsDigits, MaxFieldDigits)
DayTexts == {<<"1">>, <<"0", "1">>, <<"3", "0">>}
YearTexts == {<<"2", "0", "2", "4">>, <<"2", "4">>}
HourTexts == {<<"9">>, <<"0", "9">>, <<"2", "4">>}
MinuteTexts == {<<"5">>, <<"0", "5">>}
SecondTexts == {<<"3">>}

\* the pieces a timestamp of the votes CSV is written from: M/D/Y h:m:s,
\* possibly with another date separator, a wider gap or blanks around it
TimestampParts ==
    [lead : {<<>>, <<" ">>}, month : MonthTexts, day : DayTexts,
     year : YearTexts, date_sep : {"/", "-"}, gap : {<<" ">>, <<" ", " ">>},
     hour : HourTexts, minute : MinuteTexts, second : SecondTexts,
     trail : {<<>>, <<"\n">>}]

TimestampText(parts) ==
    parts.lead \o parts.month \o <<parts.date_sep>> \o parts.day
        \o <<parts.date_sep>> \o parts.year \o parts.gap \o parts.hour
        \o <<":">> \o parts.minute \o <<":">> \o parts.second \o parts.trail

\* a field of one digit written with two
Pad2(field) == IF Len(field) = 1 THEN <<"0">> \o field ELSE field

\* the same timestamp with month, day and hour zero-padded to two digits
PaddedParts(parts) ==
    [parts EXCEPT !.month = Pad2(@), !.day = Pad2(@), !.hour = Pad2(@)]

InitTs ==
    /\ timestamp_parts \in TimestampParts
    /\ timestamp = TimestampText(timestamp_parts)
    /\ dt = NoDatetime
    /\ ts_pc = "call"
    /\ padded_dt = NoDatetime
    /\ padded_pc = "call"
    /\ RankIdle /\ HistIdle /\ MapIdle /\ DurIdle /\ FetchIdle
    /\ BoundsIdle /\ RelIdle /\ CommonIdle

\* parse_votes_csv_timestamp(timestamp)
parse_votes_csv_timestamp ==
    /\ ts_pc = "call"
    /\ LET out == ParseTimestamp(timestamp)
       IN  /\ ts_pc' = IF out.kind = "ok" THEN "done" ELSE "raised"
           /\ dt' = out.dt
    /\ UNCHANGED <<timestamp_parts, timestamp, padded_dt, padded_pc>>
    /\ UNCHANGED notTs

\* parse_votes_csv_timestamp(the zero-padded timestamp)
parse_padded_timestamp ==
    /\ padded_pc = "call"
    /\ LET out == ParseTimestamp(TimestampText(PaddedParts(timestamp_parts)))
       IN  /\ padded_pc' = IF out.kind = "ok" THEN "done" ELSE "raised"
           /\ padded_dt' = out.dt
    /\ UNCHANGED <<timestamp_parts, timestamp, dt, ts_pc>>
    /\ UNCHANGED notTs

NextTs == parse_votes_csv_timestamp \/ parse_padded_timestamp

SpecTs == InitTs /\ [][NextTs]_vars

\* every field is a run of digits, the date is written with slashes and one
\* blank separates it from the time
ShapeOfFields(parts) ==
    /\ \A field \in {parts.month, parts.day, parts.year, parts.hour,
                     parts.minute, parts.second} : field # <<>>
    /\ parts.date_sep = "/"
    /\ parts.gap = <<" ">>

\* the text as given has the shape digits/digits/digits digits:digits:digits
HasShape(parts) ==
    ShapeOfFields(parts) /\ parts.lead = <<>> /\ parts.trail = <<>>

\* the fields name a date and a time of day that exist, with month, day and
\* hour written with one or two digits
ValidDateTime(parts) ==
    /\ ShapeOfFields(parts)
    /\ \A field \in {parts.month, parts.day, parts.hour, parts.minute,
                     parts.second} : Len(field) \in 1..2
    /\ Len(parts.year) <= 4
    /\ DatetimeOk(DecimalValue(parts.year), DecimalValue(parts.month),
                  DecimalValue(parts.day))
    /\ DecimalValue(parts.hour) \in 0..23
    /\ DecimalValue(parts.minute) \in 0..59
    /\ DecimalValue(parts.second) \in 0..59

\* the datetime the fields name
DateTimeOf(parts) ==
    [year |-> DecimalValue(parts.year), month |-> DecimalValue(parts.month),
     day |-> DecimalValue(parts.day), hour |-> DecimalValue(parts.hour),
     minute |-> DecimalValue(parts.minute),
     second |-> DecimalValue(parts.second)]

\* both calls have returned or raised
BothParsed == ts_pc \in {"done", "raised"} /\ padded_pc \in {"done", "raised"}

\* a valid date and time parses to the same timezone-less value whether its
\* month, day and hour are zero-padded or not
PaddingInsensitive ==
    BothParsed /\ ValidDateTime(timestamp_parts) =>
        /\ ts_pc = "done" /\ padded_pc = "done"
        /\ dt = padded_dt
        /\ dt = DateTimeOf(timestamp_parts)

\* C11 as stated: parse_votes_csv_timestamp is insensitive to zero-padding
\* of month, day and hour, and every input that does not have the shape
\* digits/digits/digits digits:digits:digits raises ValueError instead of
\* returning a value.
C11_ShapeOrError ==
    /\ PaddingInsensitive
    /\ ts_pc \in {"done", "raised"} /\ ~HasShape(timestamp_parts) =>
           ts_pc = "raised"

\* C11 amended: parse_votes_csv_timestamp is insensitive to zero-padding of
\* month, day and hour, and every input that, once the whitespace around it
\* is stripped, does not have the shape digits/digits/digits
\* digits:digits:digits raises ValueError instead of returning a value.
C11_ShapeAfterStripOrError ==
    /\ PaddingInsensitive
    /\ ts_pc \in {"done", "raised"} /\ ~ShapeOfFields(timestamp_parts) =>
           ts_pc = "raised"

\* " 2/1/24 9:5:3\n" and " 02/01/24 09:5:3\n" both gave 0024-02-01 09:05:03
C11_Witness ==
    /\ ts_pc = "done" /\ padded_pc = "done"
    /\ timestamp_parts.lead = <<" ">> /\ timestamp_parts.trail = <<"\n">>
    /\ timestamp_parts.month = <<"2">> /\ timestamp_parts.day = <<"1">>
    /\ timestamp_parts.hour = <<"9">> /\ timestamp_parts.year = <<"2", "4">>
    /\ dt = [year |-> 24, month |-> 2, day |-> 1, hour |-> 9, minute |-> 5,
             second |-> 3]
    /\ padded_dt = dt

(***************************************************************************)
(* get_month_year_bounds and is_date_between                               *)
(***************************************************************************)
\* pytz.timezone("Etc/GMT<sign><hours>"): the Etc zones carry the POSIX sign,
\* so Etc/GMT-14 is UTC+14 and Etc/GMT+12 is UTC-12
EtcGmt(sign, hours) == IF sign = "-" THEN <<hours>> ELSE <<0 - hours>>

\* a slip in the zone name: Etc/GMT+14, which is UTC-14
LowerTimezone_SignSlip(is_lenient) ==
    IF is_lenient THEN EtcGmt("+", 14) ELSE <<>>

\* lower_timezone: None, or timezone("Etc/GMT-14") if lenient
LowerTimezone(is_lenient) == IF is_lenient THEN EtcGmt("-", 14) ELSE <<>>

\* upper_timezone: None, or timezone("Etc/GMT+12") if lenient
UpperTimezone(is_lenient) == IF is_lenient THEN EtcGmt("+", 12) ELSE <<>>

\* lower_bound = datetime(year, month, 1, tzinfo=lower_timezone)
LowerBound(month, year, is_lenient) ==
    [year |-> year, month |-> month, day |-> 1, hour |-> 0,
     tz |-> LowerTimezone(is_lenient)]

\* upper_bound = lower_bound.replace(...), by the branch on month < 12
UpperBound(lower, is_lenient) ==
    IF lower.month < 12
    THEN [lower EXCEPT !.month = lower.month + 1,
                       !.tz = UpperTimezone(is_lenient)]
    ELSE [lower EXCEPT !.year = lower.year + 1, !.month = 1,
                       !.tz = UpperTimezone(is_lenient)]

\* the days of the years before this one, as datetime counts them
DaysBeforeYear(year) ==
    365 * (year - 1) + ((year - 1) \div 4) - ((year - 1) \div 100)
        + ((year - 1) \div 400)

RECURSIVE DaysBeforeMonth(_, _)
DaysBeforeMonth(year, month) ==
    IF month = 1 THEN 0
    ELSE DaysBeforeMonth(year, month - 1) + DaysInMonth(year, month - 1)

\* the hours from 0001-01-01 00:00 to the wall-clock time of a datetime
WallHours(d) ==
    (DaysBeforeYear(d.year) + DaysBeforeMonth(d.year, d.month) + d.day - 1)
        * 24 + d.hour

\* the instant of an aware datetime, in hours of UTC
UtcHours(d) == WallHours(d) - d.tz[1]

\* a >= b and a < b compare two naive datetimes by their wall-clock time and
\* two aware ones by their instant; one of each raises TypeError
Comparable(a, b) == (a.tz = <<>>) = (b.tz = <<>>)
Instant(d) == IF d.tz = <<>> THEN WallHours(d) ELSE UtcHours(d)

\* return date >= lower_bound and date < upper_bound
IsDateBetween(d, lower, upper) ==
    IF ~Comparable(d, lower) THEN [kind |-> "TypeError", value |-> FALSE]
    ELSE IF Instant(d) < Instant(lower) THEN [kind |-> "ok", value |-> FALSE]
    ELSE IF ~Comparable(d, upper) THEN [kind |-> "TypeError", value |-> FALSE]
    ELSE [kind |-> "ok", value |-> Instant(d) < Instant(upper)]

BoundsYears == {2023, 2024}

InitBounds ==
    /\ bounds_month \in 1..12
    /\ bounds_year \in BoundsYears
    /\ lenient \in BOOLEAN
    /\ lower_bound = NoAwareDatetime
    /\ upper_bound = NoAwareDatetime
    /\ date = NoAwareDatetime
    /\ is_between = [kind |-> "none", value |-> FALSE]
    /\ bounds_pc = "call"
    /\ RankIdle /\ HistIdle /\ MapIdle /\ DurIdle /\ FetchIdle
    /\ TsIdle /\ RelIdle /\ CommonIdle

get_month_year_bounds ==
    /\ bounds_pc = "call"
    /\ lower_bound' = LowerBound(bounds_month, bounds_year, lenient)
    /\ upper_bound' = UpperBound(lower_bound', lenient)
    /\ bounds_pc' = "bounded"
    /\ UNCHANGED <<bounds_month, bounds_year, lenient, date, is_between>>
    /\ UNCHANGED notBounds

\* the month before and the month after
MonthBefore(month, year) ==
    IF month = 1 THEN [month |-> 12, year |-> year - 1]
    ELSE [month |-> month - 1, year |-> year]
MonthAfter(month, year) ==
    IF month = 12 THEN [month |-> 1, year |-> year + 1]
    ELSE [month |-> month + 1, year |-> year]

\* the hours of the day and the UTC offsets of the ballots that are compared
ProbeHours == {0, 11, 12, 13, 23}
ProbeTimezones == {<<>>, <<0 - 12>>, <<0 - 11>>, <<0>>, <<13>>, <<14>>}

\* timestamps on the first and the last day of the month, of the month before
\* and of the month after
ProbeDates(month, year) ==
    {[year |-> my.year, month |-> my.month, day |-> day, hour |-> hour,
      tz |-> tz] :
        my \in {MonthBefore(month, year), [month |-> month, year |-> year],
                MonthAfter(month, year)},
        day \in {1, 28, 29, 30, 31}, hour \in ProbeHours,
        tz \in ProbeTimezones}

is_date_between ==
    /\ bounds_pc = "bounded"
    /\ \E d \in ProbeDates(bounds_month, bounds_year) :
           /\ DatetimeOk(d.year, d.month, d.day)
           /\ date' = d
           /\ is_between' = IsDateBetween(d, lower_bound, upper_bound)
    /\ bounds_pc' = "compared"
    /\ UNCHANGED <<bounds_month, bounds_year, lenient, lower_bound,
                   upper_bound>>
    /\ UNCHANGED notBounds

NextBounds == get_month_year_bounds \/ is_date_between

SpecBounds == InitBounds /\ [][NextBounds]_vars

\* the month that follows, January of the next year after December
FollowingMonth(month, year) ==
    [month |-> (month % 12) + 1, year |-> year + (month \div 12)]

\* C12: lower is day 1 of the month at 00:00 and upper day 1 of the
\* following month at 00:00 (January of year + 1 after December); both carry
\* no timezone in strict mode, and UTC+14 and UTC-12 in lenient mode, so that
\* the lenient interval contains every instant whose local date, at an
\* offset between UTC-12 and UTC+14, falls in the month.
C12_MonthBounds ==
    bounds_pc \in {"bounded", "compared"} =>
        /\ lower_bound =
               [year |-> bounds_year, month |-> bounds_month, day |-> 1,
                hour |-> 0, tz |-> IF lenient THEN <<14>> ELSE <<>>]
        /\ upper_bound =
               [year |-> FollowingMonth(bounds_month, bounds_year).year,
                month |-> FollowingMonth(bounds_month, bounds_year).month,
                day |-> 1, hour |-> 0,
                tz |-> IF lenient THEN <<0 - 12>> ELSE <<>>]
        /\ bounds_pc = "compared" /\ lenient /\ date.tz # <<>>
             /\ date.month = bounds_month /\ date.year = bounds_year
             => is_between = [kind |-> "ok", value |-> TRUE]

\* the lenient bounds of December 2024 end on 1 January 2025 and contain
\* 31 December 2024 23:00 at UTC-12
C12_Witness ==
    /\ bounds_pc = "compared" /\ lenient
    /\ bounds_month = 12 /\ bounds_year = 2024
    /\ upper_bound.year = 2025 /\ upper_bound.month = 1
    /\ date = [year |-> 2024, month |-> 12, day |-> 31, hour |-> 23,
               tz |-> <<0 - 12>>]
    /\ is_between.value

(***************************************************************************)
(* rel_anni_date_to_abs                                                    *)
(***************************************************************************)
\* int(word) for a word of digits with an optional minus sign; the other
\* words of this model make int raise ValueError
IsSignedInt(word) ==
    IsInt(word) \/ (word # <<>> /\ Head(word) = "-" /\ IsInt(Tail(word)))
PySignedInt(word) ==
    IF Head(word) = "-" THEN 0 - PyInt(Tail(word)) ELSE PyInt(word)

\* ' '.join(rel_date_words[1:]) for the three words of the list
JoinTail(words) == words[2] \o <<" ">> \o words[3]

\* from_date.replace(year=year) raises ValueError for a year outside
\* MINYEAR..MAXYEAR and for a day the month does not have in that year
ReplaceYear(from, year) ==
    IF DatetimeOk(year, from.month, from.day)
    THEN [kind |-> "ok", date |-> [from EXCEPT !.year = year]]
    ELSE [kind |-> "ValueError", date |-> NoDate]

\* the whole of rel_anni_date_to_abs: the absolute date, or the ValueError of
\* the format checks ("format") or of datetime.replace ("replace")
RelAnniDateToAbs(text, from) ==
    LET rel_date_words == Split(text, " ")
    IN  IF Len(rel_date_words) # 3
        THEN [kind |-> "ValueError", raised_by |-> "format", date |-> NoDate]
        ELSE IF ~IsSignedInt(rel_date_words[1])
        THEN [kind |-> "ValueError", raised_by |-> "format", date |-> NoDate]
        ELSE IF JoinTail(rel_date_words) \notin
                    {<<"year", " ", "ago">>, <<"years", " ", "ago">>}
        THEN [kind |-> "ValueError", raised_by |-> "format", date |-> NoDate]
        ELSE LET years_ago == PySignedInt(rel_date_words[1])
                 replaced == ReplaceYear(from, from.year - years_ago)
             IN  [kind |-> replaced.kind, raised_by |-> "replace",
                  date |-> replaced.date]

\* the first word is a number of years, possibly negative, a word or nothing
YearsDigits == {"1", "4"}
FirstWords ==
    SeqsUpTo(YearsDigits, MaxYearsDigits) \cup {<<"-", "1">>, <<"five">>}
SecondWords == {"year", "years", "month", "Years"}
ThirdWords == {"ago", "old"}

\* "<first> <second> <third>", possibly with a wider gap or a trailing blank
RelDates ==
    {first \o gap \o <<second, " ", third>> \o trail :
        first \in FirstWords, gap \in {<<" ">>, <<" ", " ">>},
        second \in SecondWords, third \in ThirdWords,
        trail \in {<<>>, <<" ">>}}

\* reference dates: the first of a month, the last day of a year, and the
\* 29th of February of a leap year
RelFromDates ==
    {[year |-> 2024, month |-> 4, day |-> 1],
     [year |-> 2024, month |-> 12, day |-> 31],
     [year |-> 2024, month |-> 2, day |-> 29],
     [year |-> 2023, month |-> 2, day |-> 28]}

InitRel ==
    /\ rel_date \in RelDates
    /\ rel_from_date \in RelFromDates
    /\ abs_date = NoDate
    /\ rel_pc = "call"
    /\ RankIdle /\ HistIdle /\ MapIdle /\ DurIdle /\ FetchIdle
    /\ TsIdle /\ BoundsIdle /\ CommonIdle

rel_anni_date_to_abs ==
    /\ rel_pc = "call"
    /\ LET out == RelAnniDateToAbs(rel_date, rel_from_date)
       IN  /\ rel_pc' = IF out.kind = "ok" THEN "done"
                        ELSE IF out.raised_by = "format" THEN "format_error"
                        ELSE "replace_error"
           /\ abs_date' = out.date
    /\ UNCHANGED <<rel_date, rel_from_date>>
    /\ UNCHANGED notRel

NextRel == rel_anni_date_to_abs

SpecRel == InitRel /\ [][NextRel]_vars

\* the text is "<integer> year ago" or "<integer> years ago"
YearsAgoShape(text) ==
    \E first \in FirstWords \ {<<>>, <<"five">>} :
        \E second \in {"year", "years"} :
            text = first \o <<" ", second, " ", "ago">>

\* the integer such a text starts with
YearsOf(text) ==
    LET first == SubSeq(text, 1, Len(text) - 4)
    IN  IF Head(first) = "-" THEN 0 - DecimalValue(Tail(first))
        ELSE DecimalValue(first)

\* C13: for every reference date (29 February included) and every text
\* "<integer> year ago" or "<integer> years ago" the call returns the
\* reference date with its year reduced by the integer and month and day
\* unchanged; every other text raises the format error.
C13_YearsAgo ==
    rel_pc # "call" =>
        IF YearsAgoShape(rel_date)
        THEN /\ rel_pc = "done"
             /\ abs_date = [year |-> rel_from_date.year - YearsOf(rel_date),
                            month |-> rel_from_date.month,
                            day |-> rel_from_date.day]
        ELSE rel_pc = "format_error"

(***************************************************************************)
(* get_most_common_month_year                                              *)
(***************************************************************************)
\* month_years = [(date.month, date.year) for date in dates]
MonthYears(ds) == [i \in DOMAIN ds |-> <<ds[i].month, ds[i].year>>]

\* get_freq_table(month_years): a dict from each item to the number of its
\* occurrences, its keys in the order the items are first seen
FreqTable(items) ==
    [keys |-> FirstSeen(items, {}),
     count |-> [k \in Range(items) |->
                   Cardinality({i \in DOMAIN items : items[i] = k})]]

RECURSIVE InsertByCount_TiesFirst(_, _, _)
\* a slip in the sort: a key goes before the keys of the same count
InsertByCount_TiesFirst(key, sorted, count) ==
    IF sorted = <<>> THEN <<key>>
    ELSE IF count[key] >= count[Head(sorted)] THEN <<key>> \o sorted
    ELSE <<Head(sorted)>> \o InsertByCount_TiesFirst(key, Tail(sorted), count)

RECURSIVE InsertByCount(_, _, _)
\* the place of a key among the keys sorted so far: sorted() is stable, also
\* with reverse=True, so a key goes after the keys of the same count
InsertByCount(key, sorted, count) ==
    IF sorted = <<>> THEN <<key>>
    ELSE IF count[key] > count[Head(sorted)] THEN <<key>> \o sorted
    ELSE <<Head(sorted)>> \o InsertByCount(key, Tail(sorted), count)

RECURSIVE SortedByCount(_, _, _)
\* sorted(month_year_counts, key=lambda my: month_year_counts[my],
\*        reverse=True)
SortedByCount(keys, sorted, count) ==
    IF keys = <<>> THEN sorted
    ELSE SortedByCount(Tail(keys), InsertByCount(Head(keys), sorted, count),
                       count)

\* the whole of get_most_common_month_year: (month, year, is_unanimous), or
\* the IndexError of sorted_month_years[0] on an empty list
MostCommonMonthYear(ds) ==
    LET month_year_counts == FreqTable(MonthYears(ds))
        sorted_month_years ==
            SortedByCount(month_year_counts.keys, <<>>,
                          month_year_counts.count)
    IN  IF sorted_month_years = <<>>
        THEN [kind |-> "IndexError",
              value |-> [month |-> 0, year |-> 0, is_unanimous |-> FALSE]]
        ELSE [kind |-> "ok",
              value |-> [month |-> sorted_month_years[1][1],
                         year |-> sorted_month_years[1][2],
                         is_unanimous |-> Len(sorted_month_years) = 1]]

\* ballot dates of April 2024 (two days), May 2024 and April 2023
DateChoices ==
    {[year |-> 2024, month |-> 4, day |-> 1],
     [year |-> 2024, month |-> 4, day |-> 15],
     [year |-> 2024, month |-> 5, day |-> 1],
     [year |-> 2023, month |-> 4, day |-> 1]}

InitCommon ==
    /\ dates \in SeqsUpTo(DateChoices, MaxDates)
    /\ most_common = [month |-> 0, year |-> 0, is_unanimous |-> FALSE]
    /\ common_pc = "call"
    /\ RankIdle /\ HistIdle /\ MapIdle /\ DurIdle /\ FetchIdle
    /\ TsIdle /\ BoundsIdle /\ RelIdle

get_most_common_month_year ==
    /\ common_pc = "call"
    /\ LET out == MostCommonMonthYear(dates)
       IN  /\ common_pc' = IF out.kind = "ok" THEN "done" ELSE "raised"
           /\ most_common' = out.value
    /\ UNCHANGED dates
    /\ UNCHANGED notCommon

NextCommon == get_most_common_month_year

SpecCommon == InitCommon /\ [][NextCommon]_vars

\* the positions of the dates of a month and year
Occurrences(month, year) ==
    {i \in DOMAIN dates : dates[i].month = month /\ dates[i].year = year}

\* the (month, year) pairs that occur in the list
PairsOfDates == {<<dates[i].month, dates[i].year>> : i \in DOMAIN dates}

\* the position a pair first occurs at
FirstOccurrence(pair) ==
    CHOOSE i \in Occurrences(pair[1], pair[2]) :
        \A j \in Occurrences(pair[1], pair[2]) : i <= j

\* C14: for a non-empty list the call returns a (month, year) pair whose
\* number of occurrences is maximal, the first in the list among the pairs
\* of that count, and is_unanimous is true exactly if all dates share one
\* pair.
C14_MostCommonFirstSeen ==
    common_pc \in {"done", "raised"} /\ dates # <<>> =>
        LET result == <<most_common.month, most_common.year>>
            n == Cardinality(Occurrences(result[1], result[2]))
        IN  /\ common_pc = "done"
            /\ result \in PairsOfDates
            /\ \A pair \in PairsOfDates :
                   /\ Cardinality(Occurrences(pair[1], pair[2])) <= n
                   /\ Cardinality(Occurrences(pair[1], pair[2])) = n
                          => FirstOccurrence(result) <= FirstOccurrence(pair)
            /\ most_common.is_unanimous = (Cardinality(PairsOfDates) = 1)

\* May 2024 and April 2024 occur twice each: May 2024, the first in the list,
\* is returned
C14_Witness ==
    /\ common_pc = "done"
    /\ Len(dates) = 4
    /\ MonthYears(dates) = <<<<5, 2024>>, <<4, 2024>>, <<4, 2024>>, <<5, 2024>>>>
    /\ most_common = [month |-> 5, year |-> 2024, is_unanimous |-> FALSE]

(***************************************************************************)
(* calc_ranked_records: the division by counted_voters                     *)
(***************************************************************************)
\* every slot of every ballot is blank (also when there is no ballot)
AllBallotsBlank == \A i \in DOMAIN title_rows : NonBlankSlots(title_rows[i]) = {}

\* C15: calc_ranked_records never divides by zero: when the validation loop
\* does not raise and no ballot is counted, no non-blank title was tallied
\* (every ballot is blank or there is none), no percentage is computed and
\* the records returned are the empty list.
C15_NoDivisionByZero ==
    /\ err.kind # "ZeroDivisionError"
    /\ pc \in {"rank", "build", "done"} /\ counted_voters = 0 =>
           /\ DOMAIN title_counts = {}
           /\ AllBallotsBlank
           /\ pc \in {"build", "done"} => ranked_titles = <<>>
           /\ pc = "done" => records = <<>>

\* three blank ballots gave no records
C15_Witness ==
    /\ pc = "done"
    /\ Len(title_rows) = 3
    /\ AllBallotsBlank
    /\ counted_voters = 0
    /\ records = <<>>

====
